---- MODULE Spec2Model ----
(***************************************************************************)
(* A model of intake_markdown.py: the Markdown document object and the     *)
(* MarkdownSource adapter (_get_schema, _get_partition, read, get_file).   *)
(*                                                                         *)
(* Strings are sequences of characters.  A Python reference that may be    *)
(* None is a sequence of length 0 (None) or 1 (the object), so that None   *)
(* and the empty list stay different values.  Mutable lists and dicts      *)
(* live in `heap` and are held by reference, as in Python.                 *)
(***************************************************************************)
EXTENDS Naturals, Integers, Sequences, FiniteSets, TLC

\* ------------------------------------------------------------------ bounds
MaxFiles == 2
MaxDocs == 2
MaxMutations == 1
MaxBackendFailures == 1
NumThreads == 2

Threads == 1 .. NumThreads
\* The caller of the single-threaded specifications.
MainThread == CHOOSE t \in Threads : \A u \in Threads : t <= u

\* ------------------------------------------------------------------ values
None == <<>>
Some(x) == <<x>>
IsNone(r) == r = <<>>
Deref(r) == r[1]

\* The contents a file may have: plain text, or an image with a relative link.
Contents == {<<"a">>, <<"L">>}

RECURSIVE SeqsUpTo(_, _)
SeqsUpTo(S, n) ==
    IF n = 0 THEN {<<>>}
    ELSE LET shorter == SeqsUpTo(S, n - 1)
         IN  shorter \cup {Append(s, x) : s \in {q \in shorter : Len(q) = n - 1}, x \in S}

\* The index values a caller may pass to _get_partition.
PartitionIndexes == (0 - (MaxFiles + 1)) .. (MaxFiles + 1)

VARIABLES
    disk,          \* what open_files resolves to: the files' contents, in order
    url_path,      \* MarkdownSource._urlpath
    md_kwargs,     \* MarkdownSource.md_kwargs
    _files,        \* MarkdownSource._files: None or Some(list of handles)
    npartitions,   \* MarkdownSource.npartitions
    heap,          \* the mutable list and dict objects, by reference
    docs,          \* the Markdown objects returned so far
    th,            \* per thread: the frame of the call it is in, and its result
    resolutions,   \* number of open_files invocations
    failures,      \* number of backend errors raised so far
    writes,        \* number of assignments to _files
    firstSchema    \* the Schema the first _get_schema() returned, or None

vars == <<disk, url_path, md_kwargs, _files, npartitions, heap, docs, th,
          resolutions, failures, writes, firstSchema>>

\* ------------------------------------------------------------------ Python
\* lst[i] for a Python list that may be None (line 128).
ListIndex(lst, i) ==
    IF IsNone(lst) THEN [kind |-> "TypeError", val |-> 0]
    ELSE LET n == Len(Deref(lst))
         IN  IF i >= 0 /\ i < n THEN [kind |-> "ok", val |-> Deref(lst)[i + 1]]
             ELSE IF i < 0 /\ i >= 0 - n THEN [kind |-> "ok", val |-> Deref(lst)[n + i + 1]]
             ELSE [kind |-> "IndexError", val |-> 0]

\* The parts joined last to first.
RECURSIVE JoinReversed(_)
JoinReversed(parts) ==
    IF parts = <<>> THEN <<>> ELSE JoinReversed(Tail(parts)) \o Head(parts)

\* ''.join(parts) (line 133).
RECURSIVE Join(_)
Join(parts) == IF parts = <<>> THEN <<>> ELSE Head(parts) \o Join(Tail(parts))

\* kwargs.get(key, default): a keyword argument, or the parameter's default.
KwargOr(kw, key, default) == IF key \in DOMAIN kw THEN kw[key] ELSE default

\* ------------------------------------------------------------------ Markdown
\* The objects the def statements of lines 8-13 and 77-79 create once.
DefaultExtensions == "DefaultExtensions"
DefaultExtensionConfigs == "DefaultExtensionConfigs"
UserExtensions == "UserExtensions"
Refs == {DefaultExtensions, DefaultExtensionConfigs, UserExtensions}

\* formatter_options' default (lines 11-12): cssclass and style name.
DefaultFormatterOptions == [cssclass |-> "codehilite", style |-> "default"]

\* Markdown.__init__ (lines 37-44): attributes are the arguments themselves.
NewMarkdown(data, urlpath, kw) ==
    [data |-> data,
     url |-> urlpath,
     extensions |-> KwargOr(kw, "extensions", DefaultExtensions),
     extension_configs |-> KwargOr(kw, "extension_configs", DefaultExtensionConfigs),
     pre |-> KwargOr(kw, "pre", <<>>),
     post |-> KwargOr(kw, "post", <<>>),
     formatter |-> KwargOr(kw, "formatter_options", DefaultFormatterOptions),
     extra_css |-> KwargOr(kw, "extra_css", <<>>)]

NoKwargs == [k \in {} |-> <<>>]

\* Markdown.get_markdown (line 47).
get_markdown(doc) == doc.pre \o doc.data \o doc.post

\* markdown(text, ...) (lines 51-52): one element per source token; the image
\* token L becomes an img element carrying its relative src.
RECURSIVE MarkdownToHtml(_)
MarkdownToHtml(text) ==
    IF text = <<>> THEN <<>>
    ELSE <<IF Head(text) = "L"
           THEN [tag |-> "img", ref |-> <<"i">>, text |-> ""]
           ELSE [tag |-> "text", ref |-> <<>>, text |-> Head(text)]>>
         \o MarkdownToHtml(Tail(text))

\* urljoin(base, ref) (lines 57, 60) for a relative ref.
urljoin(base, ref) == base \o ref

\* The loops of lines 55-60: every img src and a href joined to the base.
RECURSIVE RewriteLinks(_, _)
RewriteLinks(soup, base) ==
    IF soup = <<>> THEN <<>>
    ELSE <<IF Head(soup).tag \in {"img", "a"} /\ Head(soup).ref # <<>>
           THEN [Head(soup) EXCEPT !.ref = urljoin(base, @)]
           ELSE Head(soup)>>
         \o RewriteLinks(Tail(soup), base)

\* The style block of line 50.
StyleHtml(doc) == <<"<style>", doc.formatter.style, doc.formatter.cssclass>>
                      \o doc.extra_css \o <<"</style>">>

\* The names bound at module level (lines 1-7, 64, 138).
ModuleGlobals == {"DataSource", "Schema", "markdown", "HtmlFormatter",
                  "BeautifulSoup", "urljoin", "Markdown", "MarkdownSource", "get_file"}

\* A Python value's truth: None and the empty string are falsy.
Truthy(v) == ~IsNone(v) /\ Deref(v) # <<>>

\* Markdown._repr_html_ (lines 49-61).  Line 54 reads the name urlpath, which
\* is neither a local of the method nor a module global.
_repr_html_(doc) ==
    LET locals == [self |-> doc,
                   style_html |-> StyleHtml(doc),
                   html |-> MarkdownToHtml(get_markdown(doc)),
                   soup |-> MarkdownToHtml(get_markdown(doc))]
    IN  IF "urlpath" \notin (DOMAIN locals \cup ModuleGlobals)
        THEN [kind |-> "NameError", style |-> <<>>, body |-> <<>>]
        ELSE [kind |-> "ok",
              style |-> locals.style_html,
              body |-> IF Truthy(locals.urlpath)
                       THEN RewriteLinks(locals.soup, Deref(doc.url))
                       ELSE locals.soup]

\* ------------------------------------------------------------------ Source
\* Schema(dtype=None, shape=(None,), npartitions=..., extra_metadata=...)
\* (lines 122-125).
Schema(np) == [dtype |-> None, shape |-> <<None>>, npartitions |-> np,
               extra_metadata |-> "metadata"]

NoResult == [kind |-> "none", doc |-> 0, schema |-> None, style |-> <<>>, body |-> <<>>]

IdleFrame == [pc |-> "idle", op |-> "none", arg |-> 0, fresh |-> FALSE,
              tmp |-> <<>>, it |-> <<>>, k |-> 0, cur |-> 0, acc |-> <<>>,
              d |-> <<>>, exc |-> "none", held |-> {}, opened |-> <<>>,
              res |-> NoResult]

\* A frame for a new call: the locals are cleared, the last result forgotten.
Enter(op, arg, pc) ==
    [IdleFrame EXCEPT !.pc = pc, !.op = op, !.arg = arg, !.fresh = IsNone(_files)]

\* The call of thread t ends with result res: its locals are gone; what the
\* caller passed, what the call opened and what it still holds are kept.
Finish(t, held, res) ==
    [th EXCEPT ![t] = [IdleFrame EXCEPT !.op = th[t].op, !.arg = th[t].arg,
                                        !.fresh = th[t].fresh,
                                        !.opened = th[t].opened,
                                        !.held = held, !.res = res]]

\* The call of thread t ends by raising exc: no value is returned.
Raise(t, exc) == Finish(t, th[t].held, [NoResult EXCEPT !.kind = exc])

\* The call of thread t returns document number i of docs.
ReturnDoc(t, i) == Finish(t, th[t].held, [NoResult EXCEPT !.kind = "ok", !.doc = i])

\* Documents held by callers plus those the calls in progress will return.
DocsDue == Len(docs) + Cardinality({t \in Threads : th[t].op \in {"read", "partition"}
                                                     /\ th[t].pc # "idle"})

InitHeap == [r \in Refs |->
               CASE r = DefaultExtensions -> <<"fenced_code", "codehilite", "md_in_html">>
                 [] r = DefaultExtensionConfigs -> <<>>
                 [] r = UserExtensions -> <<"tables">>]

\* The keyword arguments a caller may configure for Markdown (line 107).
KwargValue(k) ==
    CASE k = "pre" -> <<"p">>
      [] k = "post" -> <<"q">>
      [] k = "extensions" -> UserExtensions

MdKwargsChoices == {[k \in K |-> KwargValue(k)] : K \in SUBSET {"pre", "post", "extensions"}}

\* MarkdownSource.__init__ (lines 100-109); npartitions is 0 from the base class.
Init ==
    /\ disk \in SeqsUpTo(Contents, MaxFiles)
    /\ url_path \in {Some(<<>>), Some(<<"u">>)}
    /\ md_kwargs \in MdKwargsChoices
    /\ _files = None
    /\ npartitions = 0
    /\ heap = InitHeap
    /\ docs = <<>>
    /\ th = [t \in Threads |-> IdleFrame]
    /\ resolutions = 0
    /\ failures = 0
    /\ writes = 0
    /\ firstSchema = None

env == <<disk, url_path, md_kwargs>>

\* ---- the calls a thread may start
CallGetSchema(t) ==
    /\ th[t].pc = "idle"
    /\ th' = [th EXCEPT ![t] = Enter("schema", 0, "schema_check")]
    /\ UNCHANGED <<env, _files, npartitions, heap, docs, resolutions, failures,
                   writes, firstSchema>>

CallRead(t) ==
    /\ th[t].pc = "idle"
    /\ DocsDue < MaxDocs
    /\ th' = [th EXCEPT ![t] = Enter("read", 0, "schema_check")]
    /\ UNCHANGED <<env, _files, npartitions, heap, docs, resolutions, failures,
                   writes, firstSchema>>

CallGetPartition(t) ==
    /\ th[t].pc = "idle"
    /\ DocsDue < MaxDocs
    /\ \E i \in PartitionIndexes :
          th' = [th EXCEPT ![t] = Enter("partition", i, "part_index")]
    /\ UNCHANGED <<env, _files, npartitions, heap, docs, resolutions, failures,
                   writes, firstSchema>>

\* ---- _get_schema (lines 111-125)
\* "if not self._files": an empty list counts as unresolved too.
NeedsResolutionFalsy(f) == IsNone(f) \/ Deref(f) = <<>>

\* line 113: if self._files is None
NeedsResolution(f) == IsNone(f)

SchemaCheck(t) ==
    /\ th[t].pc = "schema_check"
    /\ th' = [th EXCEPT ![t].pc = IF NeedsResolution(_files) THEN "schema_open"
                                  ELSE "schema_ret"]
    /\ UNCHANGED <<env, _files, npartitions, heap, docs, resolutions, failures,
                   writes, firstSchema>>

\* open_files(urlpath, ...): one handle per matching file, in order.
open_files(d) == [h \in 1 .. Len(d) |-> h]

\* lines 115-120: the backend is asked; it may raise instead of answering.
SchemaOpen(t) ==
    /\ th[t].pc = "schema_open"
    /\ resolutions' = resolutions + 1
    /\ \/ /\ th' = [th EXCEPT ![t].tmp = open_files(disk), ![t].pc = "schema_assign"]
          /\ UNCHANGED failures
       \/ /\ failures < MaxBackendFailures
          /\ failures' = failures + 1
          /\ th' = Raise(t, "BackendError")
    /\ UNCHANGED <<env, _files, npartitions, heap, docs, writes, firstSchema>>

\* line 117: self._files = <the list>
SchemaAssign(t) ==
    /\ th[t].pc = "schema_assign"
    /\ _files' = Some(th[t].tmp)
    /\ writes' = writes + 1
    /\ th' = [th EXCEPT ![t].pc = "schema_np"]
    /\ UNCHANGED <<env, npartitions, heap, docs, resolutions, failures,
                   firstSchema>>

\* At least one partition is reported, even for no file.
CountPartitionsAtLeastOne(f) == IF Deref(f) = <<>> THEN 1 ELSE Len(Deref(f))

\* line 121: len(self._files)
CountPartitions(f) == Len(Deref(f))

SchemaCount(t) ==
    /\ th[t].pc = "schema_np"
    /\ npartitions' = CountPartitions(_files)
    /\ th' = [th EXCEPT ![t].pc = "schema_ret"]
    /\ UNCHANGED <<env, _files, heap, docs, resolutions, failures, writes,
                   firstSchema>>

\* lines 122-125: the Schema is built; read() (line 131) drops it and goes on.
SchemaReturn(t) ==
    /\ th[t].pc = "schema_ret"
    /\ IF th[t].op = "schema"
       THEN /\ th' = Finish(t, th[t].held,
                            [NoResult EXCEPT !.kind = "ok",
                                             !.schema = Some(Schema(npartitions))])
            /\ firstSchema' = IF IsNone(firstSchema) THEN Some(Schema(npartitions))
                              ELSE firstSchema
       ELSE /\ th' = [th EXCEPT ![t].pc = "read_iter"]
            /\ UNCHANGED firstSchema
    /\ UNCHANGED <<env, _files, npartitions, heap, docs, resolutions, failures,
                   writes>>

\* ---- read (lines 130-135)
\* line 132: the comprehension takes an iterator over the list self._files is now.
ReadIter(t) ==
    /\ th[t].pc = "read_iter"
    /\ LET lst == Deref(_files)
       IN  th' = [th EXCEPT ![t].it = lst,
                            ![t].k = 1,
                            ![t].cur = IF lst = <<>> THEN 0 ELSE lst[1],
                            ![t].pc = IF lst = <<>> THEN "read_build" ELSE "gf_enter"]
    /\ UNCHANGED <<env, _files, npartitions, heap, docs, resolutions, failures,
                   writes, firstSchema>>

\* ---- _get_partition (lines 127-128)
\* The index taken as one-based.
PartitionHandleOneBased(f, i) == ListIndex(f, i - 1)

\* line 128: self._files[i]
PartitionHandle(f, i) == ListIndex(f, i)

PartIndex(t) ==
    /\ th[t].pc = "part_index"
    /\ LET r == PartitionHandle(_files, th[t].arg)
       IN  th' = IF r.kind = "ok"
                 THEN [th EXCEPT ![t].cur = r.val, ![t].pc = "gf_enter"]
                 ELSE Raise(t, r.kind)
    /\ UNCHANGED <<env, _files, npartitions, heap, docs, resolutions, failures,
                   writes, firstSchema>>

\* ---- get_file (lines 138-142)
\* line 140, entering the with block: the handle is opened.
GetFileEnter(t) ==
    /\ th[t].pc = "gf_enter"
    /\ th' = [th EXCEPT ![t].held = @ \cup {th[t].cur},
                        ![t].opened = Append(@, th[t].cur),
                        ![t].pc = "gf_read"]
    /\ UNCHANGED <<env, _files, npartitions, heap, docs, resolutions, failures,
                   writes, firstSchema>>

\* line 141: f.read() gives the whole content, or raises.
GetFileRead(t) ==
    /\ th[t].pc = "gf_read"
    /\ \/ th' = [th EXCEPT ![t].d = disk[th[t].cur], ![t].pc = "gf_exit"]
       \/ th' = [th EXCEPT ![t].exc = "IOError", ![t].pc = "gf_exit"]
    /\ UNCHANGED <<env, _files, npartitions, heap, docs, resolutions, failures,
                   writes, firstSchema>>

\* Closing only when the read succeeded (open, read, close without a with).
HeldAfterExitNoFinally(held, cur, exc) == IF exc = "none" THEN held \ {cur} ELSE held

\* The handles still open once the with block of line 140 is left, whether
\* by its end or by an exception (exc).
HeldAfterExit(held, cur, exc) == held \ {cur}

\* line 140, leaving the with block (normally or by the exception), then
\* line 142 or the propagation of the exception to the caller.
GetFileExit(t) ==
    /\ th[t].pc = "gf_exit"
    /\ LET heldNow == HeldAfterExit(th[t].held, th[t].cur, th[t].exc)
           f == th[t]
       IN  IF f.exc # "none"
           THEN th' = Finish(t, heldNow, [NoResult EXCEPT !.kind = f.exc])
           ELSE IF f.op = "partition"
           THEN th' = [th EXCEPT ![t].held = heldNow, ![t].cur = 0,
                                 ![t].pc = "part_build"]
           ELSE IF f.k < Len(f.it)
           THEN th' = [th EXCEPT ![t].held = heldNow,
                                 ![t].acc = Append(@, f.d),
                                 ![t].d = <<>>,
                                 ![t].k = f.k + 1,
                                 ![t].cur = f.it[f.k + 1],
                                 ![t].pc = "gf_enter"]
           ELSE th' = [th EXCEPT ![t].held = heldNow,
                                 ![t].acc = Append(@, f.d),
                                 ![t].d = <<>>,
                                 ![t].cur = 0,
                                 ![t].pc = "read_build"]
    /\ UNCHANGED <<env, _files, npartitions, heap, docs, resolutions, failures,
                   writes, firstSchema>>

\* lines 133-134: Markdown(''.join(file_data), self._urlpath, **self.md_kwargs)
ReadDocument(file_data, urlpath, kw) == NewMarkdown(Join(file_data), urlpath, kw)

ReadBuild(t) ==
    /\ th[t].pc = "read_build"
    /\ docs' = Append(docs, ReadDocument(th[t].acc, url_path, md_kwargs))
    /\ th' = ReturnDoc(t, Len(docs) + 1)
    /\ UNCHANGED <<env, _files, npartitions, heap, resolutions, failures, writes,
                   firstSchema>>

\* line 128: Markdown(get_file(...)), every other parameter at its default.
PartitionDocument(d) == NewMarkdown(d, None, NoKwargs)

PartBuild(t) ==
    /\ th[t].pc = "part_build"
    /\ docs' = Append(docs, PartitionDocument(th[t].d))
    /\ th' = ReturnDoc(t, Len(docs) + 1)
    /\ UNCHANGED <<env, _files, npartitions, heap, resolutions, failures, writes,
                   firstSchema>>

\* ---- what a caller does with a returned document
\* The notebook display hook is called on document i.
Render(t) ==
    /\ th[t].pc = "idle"
    /\ \E i \in 1 .. Len(docs) :
          LET r == _repr_html_(docs[i])
          IN  th' = [th EXCEPT ![t] = [IdleFrame EXCEPT
                        !.op = "render", !.arg = i,
                        !.res = [NoResult EXCEPT !.kind = r.kind, !.doc = i,
                                                 !.style = r.style, !.body = r.body]]]
    /\ UNCHANGED <<env, _files, npartitions, heap, docs, resolutions, failures,
                   writes, firstSchema>>

MutableAttrs == {"extensions", "extension_configs"}

Appended == Len(heap[DefaultExtensions]) + Len(heap[DefaultExtensionConfigs])
              + Len(heap[UserExtensions])
              - (Len(InitHeap[DefaultExtensions]) + Len(InitHeap[DefaultExtensionConfigs])
                 + Len(InitHeap[UserExtensions]))

\* The object a document's attribute refers to.
AttrRef(doc, a) == IF a = "extensions" THEN doc.extensions ELSE doc.extension_configs

\* doc.extensions.append(x) or doc.extension_configs[x] = ...: the object the
\* attribute refers to is changed in place.
Mutate(t) ==
    /\ th[t].pc = "idle"
    /\ Appended < MaxMutations
    /\ \E i \in 1 .. Len(docs), a \in MutableAttrs :
          /\ heap' = [heap EXCEPT ![AttrRef(docs[i], a)] = Append(@, "x")]
          /\ th' = [th EXCEPT ![t] = [IdleFrame EXCEPT
                        !.op = a, !.arg = i,
                        !.res = [NoResult EXCEPT !.kind = "ok", !.doc = i]]]
    /\ UNCHANGED <<env, _files, npartitions, docs, resolutions, failures,
                   writes, firstSchema>>

\* The steps of the adapter's calls.
SourceStep(t) ==
    \/ CallGetSchema(t)
    \/ CallRead(t)
    \/ CallGetPartition(t)
    \/ SchemaCheck(t)
    \/ SchemaOpen(t)
    \/ SchemaAssign(t)
    \/ SchemaCount(t)
    \/ SchemaReturn(t)
    \/ ReadIter(t)
    \/ PartIndex(t)
    \/ GetFileEnter(t)
    \/ GetFileRead(t)
    \/ GetFileExit(t)
    \/ ReadBuild(t)
    \/ PartBuild(t)

\* One caller of the adapter: every call runs to its end before the next starts.
Next == SourceStep(MainThread)

Spec == Init /\ [][Next]_vars

\* One caller that also renders and changes the documents it was given.
NextDocs ==
    \/ SourceStep(MainThread)
    \/ Render(MainThread)
    \/ Mutate(MainThread)

SpecDocs == Init /\ [][NextDocs]_vars

\* Several threads call into the same source; their steps interleave.
NextConc == \E t \in Threads : SourceStep(t)

\* The threads share a source constructed with the default md_kwargs.
InitConc == Init /\ md_kwargs = NoKwargs /\ url_path = Some(<<"u">>)

SpecConc == InitConc /\ [][NextConc]_vars

\* ------------------------------------------------------------------ claims
Main == th[MainThread]
MainIdle == Main.pc = "idle"
Returned(op) == MainIdle /\ Main.op = op /\ Main.res.kind = "ok"

\* c_0 + ... + c_{n-1}: the first n files' contents, in resolution order.
RECURSIVE DiskText(_)
DiskText(n) == IF n = 0 THEN <<>> ELSE DiskText(n - 1) \o disk[n]

\* The handle list is set and the statement after its assignment has run.
Resolved == ~IsNone(_files) /\ Main.pc # "schema_np"

\* C1: once _files has been set, no step of any later call invokes open_files
\* again, assigns _files again or changes the handle list or npartitions; _files
\* is assigned at most once; and every Schema that _get_schema() returns equals
\* the one its first call returned.
C1_ResolvedOnceAndCached ==
    [][/\ writes' <= 1
       /\ Resolved => /\ resolutions' = resolutions
                      /\ writes' = writes
                      /\ _files' = _files
                      /\ npartitions' = npartitions
       /\ (th'[MainThread].pc = "idle" /\ th'[MainThread].op = "schema"
             /\ th'[MainThread].res.kind = "ok")
            => th'[MainThread].res.schema = firstSchema']_vars

\* A _get_schema() call made when the handles were already cached has returned.
C1_Witness ==
    /\ Returned("schema")
    /\ ~Main.fresh
    /\ resolutions = 1
    /\ Len(Deref(_files)) = 0

\* C2 as stated: the composed text of the Document read() returns is the
\* concatenation of the files' contents.
C2_ComposedTextIsConcatenation ==
    Returned("read") => get_markdown(docs[Main.res.doc]) = DiskText(Len(disk))

\* C2, amended: the Document's data is the concatenation of the files'
\* contents in resolution order, and its composed text is that text between
\* the pre and post that md_kwargs gives (both empty unless given).
C2_DataIsConcatenation ==
    Returned("read") =>
        LET doc == docs[Main.res.doc]
            pre == IF "pre" \in DOMAIN md_kwargs THEN md_kwargs.pre ELSE <<>>
            post == IF "post" \in DOMAIN md_kwargs THEN md_kwargs.post ELSE <<>>
        IN  /\ doc.data = DiskText(Len(disk))
            /\ get_markdown(doc) = pre \o DiskText(Len(disk)) \o post
            /\ (Len(disk) = 0 /\ DOMAIN md_kwargs \cap {"pre", "post"} = {})
                 => get_markdown(doc) = <<>>

\* read() has returned the text of two different files, pre configured.
C2_Witness ==
    /\ Returned("read")
    /\ Len(disk) = 2
    /\ disk[1] # disk[2]
    /\ "pre" \in DOMAIN md_kwargs

\* C3: whenever the handle list is resolved, npartitions is the number of
\* handles, and so is the npartitions of every Schema returned; also for no
\* file at all.
C3_PartitionCountIsHandleCount ==
    /\ Resolved => npartitions = Len(Deref(_files))
    /\ Returned("schema") =>
          /\ ~IsNone(_files)
          /\ Deref(Main.res.schema).npartitions = Len(Deref(_files))
          /\ Deref(Main.res.schema).npartitions = Len(disk)

\* _get_schema() has returned for a location that matches no file.
C3_Witness ==
    /\ Returned("schema")
    /\ Len(Deref(_files)) = 0
    /\ npartitions = 0

\* C4 as stated: _get_partition(i) on a source nothing was called on yet, i a
\* valid index, resolves the handles itself and returns the i-th file's
\* Document (or the read's error), never another failure.
C4_PartitionResolvesLazily ==
    (MainIdle /\ Main.op = "partition" /\ Main.fresh
       /\ Main.arg >= 0 /\ Main.arg < Len(disk))
    => /\ ~IsNone(_files)
       /\ Main.res.kind \in {"ok", "IOError"}
       /\ Main.res.kind = "ok" => docs[Main.res.doc].data = disk[Main.arg + 1]

\* C5 as stated: on a resolved source, _get_partition(i) with i outside
\* [0, npartitions) opens no file, raises an index error and returns no
\* Document.
C5_OutOfRangeIndexFails ==
    (Main.op = "partition" /\ ~Main.fresh
       /\ (Main.arg < 0 \/ Main.arg >= npartitions))
    => /\ Main.opened = <<>>
       /\ MainIdle => (Main.res.kind = "IndexError" /\ Main.res.doc = 0)

\* C6: on a resolved source, whatever was called before, _get_partition(i)
\* with a valid i opens the i-th handle and no other, and the Document it
\* returns has exactly the i-th file's content as its data.
C6_PartitionIsIthFile ==
    (MainIdle /\ Main.op = "partition" /\ ~Main.fresh
       /\ Main.arg >= 0 /\ Main.arg < Len(disk))
    => /\ Main.opened = <<Main.arg + 1>>
       /\ Main.res.kind \in {"ok", "IOError"}
       /\ Main.res.kind = "ok" =>
             /\ docs[Main.res.doc].data = disk[Main.arg + 1]
             /\ get_markdown(docs[Main.res.doc]) = disk[Main.arg + 1]

\* _get_partition(1) has returned the second file after a read() of both.
C6_Witness ==
    /\ Returned("partition")
    /\ Main.arg = 1
    /\ Main.res.doc = 2
    /\ Len(disk) = 2
    /\ disk[1] # disk[2]
    /\ docs[1].data = disk[1] \o disk[2]

\* C7: a call holds at most the one handle it is reading; when no call is in
\* progress no handle is open, also after a read raised; the error reaches
\* the caller with no Document, every handle having been opened once only.
C7_NoHandleLeftOpen ==
    /\ Cardinality(Main.held) <= 1
    /\ MainIdle => Main.held = {}
    /\ (MainIdle /\ Main.res.kind = "IOError") =>
          /\ Main.res.doc = 0
          /\ \A i, j \in 1 .. Len(Main.opened) :
                i # j => Main.opened[i] # Main.opened[j]

\* read() has failed on its second file, the first one read and closed.
C7_Witness ==
    /\ MainIdle
    /\ Main.op = "read"
    /\ Main.res.kind = "IOError"
    /\ Main.opened = <<1, 2>>
    /\ Main.held = {}

\* C8 as stated: _repr_html_() of a Document whose url is None or empty
\* returns the style block and the HTML of pre + data + post, no link
\* rewritten, and does not raise.
C8_FalsyUrlRendersUnrewritten ==
    (MainIdle /\ Main.op = "render" /\ ~Truthy(docs[Main.arg].url))
    => /\ Main.res.kind = "ok"
       /\ Main.res.style = StyleHtml(docs[Main.arg])
       /\ Main.res.body = MarkdownToHtml(get_markdown(docs[Main.arg]))

\* The values of a document's mutable attributes, under heap h.
AttrValues(doc, h) == <<h[doc.extensions], h[doc.extension_configs]>>

\* The values md_kwargs holds by reference, under heap h.
KwargValues(h) == IF "extensions" \in DOMAIN md_kwargs THEN h[md_kwargs.extensions] ELSE <<>>

\* C9 as stated: changing an attribute value of one Document leaves every
\* attribute of every other Document, and md_kwargs, as they were.
C9_DocumentsShareNothing ==
    [][(heap' # heap /\ th'[MainThread].op \in MutableAttrs)
         => /\ \A j \in 1 .. Len(docs) :
                  j # th'[MainThread].arg
                     => AttrValues(docs[j], heap') = AttrValues(docs[j], heap)
            /\ KwargValues(heap') = KwargValues(heap)]_vars

\* C10 as stated: however the threads' calls interleave, _files is assigned
\* at most once.
C10_FilesWrittenAtMostOnce == writes <= 1

====
